---------------------------- MODULE Spec2Model ----------------------------
(***************************************************************************)
(* Model of jbial/ml-tutorials:                                            *)
(*   - clustering/k_means.py      KMeans.cluster and its helper methods    *)
(*   - word_embeddings/dataloader.py  build_dict, doc2num,                 *)
(*                                    build_training_set                   *)
(*                                                                         *)
(* Numbers.  A pixel is a tuple of integer channel levels (the code        *)
(* divides the levels by 255; this uniform factor changes no comparison).  *)
(* A mean is kept exactly, in units of 1/Scale of a level, where Scale is  *)
(* a common multiple of every cluster size that occurs.  np.linalg.norm    *)
(* is the square root of the squared distance; the square root is          *)
(* monotone, so squared distances order and tie exactly as the norms do.   *)
(* Labels and centroid indices are 0-based as in the code; position k+1 of *)
(* the sequence `centroids` holds centroid k.                              *)
(***************************************************************************)
EXTENDS Integers, Sequences, FiniteSets, TLC

\* ------------------------------------------------------------------------
\* Bounds of the model
\* ------------------------------------------------------------------------

\* Largest number of pixels of an enumerated (small) image.
MaxPixels == 3

\* Largest `iterations` argument handed to cluster (smallest is 0).
MaxIters == 2

\* Row length used to give the pixels of the wide image distinct colours.
WideWidth == 17

\* Longest word list read from a book (load_books).
MaxBook == 3

\* Longest word list handed to doc2num.
MaxDoc == 5

\* Largest window_size handed to build_training_set (smallest is 0).
MaxWindow == 2

\* Range of np.uint8: labels.astype(np.uint8) keeps 8 bits.
Uint8Mod == 256

\* Colours the pixels of the small images are drawn from.  <<0,1>> and
\* <<1,0>> are equally far from <<0,0>>, so ties between distinct centroids
\* occur; images may repeat a colour, so equal centroids occur.
Palette == { <<0, 0>>, <<0, 1>>, <<1, 0>>, <<3, 3>> }

\* The words documents are made of.
Words == { "a", "b", "c" }

\* Smallest pixel count for which a label can exceed the uint8 range.
WidePixels == Uint8Mod + 1

\* An image with WidePixels pixels of pairwise distinct colours.
WideImage == [i \in 1..WidePixels |-> << (i - 1) % WideWidth, (i - 1) \div WideWidth >>]

\* Number of channels of a pixel (c of w, h, c = img.shape).
Channels == Len(CHOOSE p \in Palette : TRUE)

SmallImages == UNION { [1..n -> Palette] : n \in 1..MaxPixels }

\* Values of K handed to the constructor: invalid ones on both sides of
\* every small image size, and the wide pixel count.
KRange == (-1 .. (MaxPixels + 1)) \cup {WidePixels}

\* ------------------------------------------------------------------------
\* Arithmetic helpers
\* ------------------------------------------------------------------------

RECURSIVE Gcd(_, _)
Gcd(a, b) == IF b = 0 THEN a ELSE Gcd(b, a % b)

RECURSIVE LcmUpTo(_)
LcmUpTo(n) == IF n <= 1 THEN 1 ELSE LET l == LcmUpTo(n - 1) IN (l * n) \div Gcd(l, n)

\* Every cluster of a small image has between 1 and MaxPixels pixels, and
\* every cluster of the wide image has exactly one (see LoadImage), so each
\* mean is an exact multiple of 1/Scale.
Scale == LcmUpTo(MaxPixels)

\* ------------------------------------------------------------------------
\* Values
\* ------------------------------------------------------------------------

ZeroVec == [c \in 1..Channels |-> 0]

\* The vector np.mean yields for an empty selection: every channel is NaN.
NaNVec == [nan |-> TRUE, v |-> ZeroVec]

\* A pixel used as a mean (img[idx, :]), in units of 1/Scale.
PointAsMean(p) == [nan |-> FALSE, v |-> [c \in 1..Channels |-> p[c] * Scale]]

\* Squared Euclidean distance of pixel p to a defined mean m, in units of
\* 1/Scale^2 (np.linalg.norm(img[i] - means, axis=1), squared).
RECURSIVE SqDistUpTo(_, _, _)
SqDistUpTo(p, m, c) ==
    IF c = 0 THEN 0
    ELSE LET d == p[c] * Scale - m.v[c] IN d * d + SqDistUpTo(p, m, c - 1)

SqDist(p, m) == SqDistUpTo(p, m, Channels)

\* ------------------------------------------------------------------------
\* KMeans helper methods
\* ------------------------------------------------------------------------

\* np.random.choice(len(img), K, replace=False): every sequence of K
\* distinct pixel indices (1-based here), for 0 <= K <= n.
InjSeqs(n, k) == { s \in [1..k -> 1..n] : \A a, b \in 1..k : a # b => s[a] # s[b] }

\* Variant of Samples: sampling with replacement (replace=True).
SamplesWithReplacement(n, k) ==
    IF n <= MaxPixels
    THEN [1..k -> 1..n]
    ELSE { [j \in 1..k |-> j], [j \in 1..k |-> 1] }

\* The samples the model enumerates: all of them for a small image; for
\* the wide image the first K pixels in order and in reverse order.
Samples(n, k) ==
    IF n <= MaxPixels
    THEN InjSeqs(n, k)
    ELSE { [j \in 1..k |-> j], [j \in 1..k |-> k + 1 - j] }

\* img[sample, :]
InitMeans(im, sample) == [j \in 1..Len(sample) |-> PointAsMean(im[sample[j]])]

\* Variant of ArgMinIn: the last occurrence of the smallest distance wins.
RECURSIVE ArgMinInLast(_, _, _, _)
ArgMinInLast(p, means, lo, hi) ==
    IF lo = hi THEN lo
    ELSE LET mid == (lo + hi) \div 2
             l == ArgMinInLast(p, means, lo, mid)
             r == ArgMinInLast(p, means, mid + 1, hi)
         IN  IF means[l].nan THEN l
             ELSE IF means[r].nan THEN r
             ELSE IF SqDist(p, means[r]) <= SqDist(p, means[l]) THEN r
             ELSE l

\* Variant of ArgMinIn: NaN distances are skipped (np.nanargmin).
RECURSIVE ArgMinInSkipNaN(_, _, _, _)
ArgMinInSkipNaN(p, means, lo, hi) ==
    IF lo = hi THEN lo
    ELSE LET mid == (lo + hi) \div 2
             l == ArgMinInSkipNaN(p, means, lo, mid)
             r == ArgMinInSkipNaN(p, means, mid + 1, hi)
         IN  IF means[r].nan THEN l
             ELSE IF means[l].nan THEN r
             ELSE IF SqDist(p, means[r]) < SqDist(p, means[l]) THEN r
             ELSE l

\* np.argmin over the distances of one pixel to means[lo..hi], as a
\* 1-based position.  numpy propagates NaN: the first NaN distance is the
\* minimum; otherwise the first occurrence of the smallest distance.  The
\* range is halved so that the evaluation depth stays logarithmic: the
\* left half's answer stands unless the right half's is strictly better.
RECURSIVE ArgMinIn(_, _, _, _)
ArgMinIn(p, means, lo, hi) ==
    IF lo = hi THEN lo
    ELSE LET mid == (lo + hi) \div 2
             l == ArgMinIn(p, means, lo, mid)
             r == ArgMinIn(p, means, mid + 1, hi)
         IN  IF means[l].nan THEN l
             ELSE IF means[r].nan THEN r
             ELSE IF SqDist(p, means[r]) < SqDist(p, means[l]) THEN r
             ELSE l

\* np.argmin(dists), 0-based.
ArgMin(p, means) == ArgMinIn(p, means, 1, Len(means)) - 1

\* _get_nearest_means, for a non-empty array of means.
GetNearestMeans(im, means) == [i \in 1..Len(im) |-> ArgMin(im[i], means)]

\* Sum of channel c over the pixels with index in S.
RECURSIVE ChanSum(_, _, _)
ChanSum(im, c, S) ==
    IF S = {} THEN 0
    ELSE LET i == CHOOSE j \in S : TRUE IN im[i][c] + ChanSum(im, c, S \ {i})

\* Variant of ClusterMean: the first pixel of the cluster instead of its mean.
ClusterFirstMember(im, lab, k) ==
    LET members == { i \in 1..Len(im) : lab[i] = k }
    IN  IF members = {} THEN NaNVec
        ELSE PointAsMean(im[CHOOSE i \in members : \A j \in members : i <= j])

\* img[labels == k].mean(axis=0): NaN in every channel for an empty
\* selection, else the channel-wise arithmetic mean.
ClusterMean(im, lab, k) ==
    LET members == { i \in 1..Len(im) : lab[i] = k }
        cnt == Cardinality(members)
    IN  IF cnt = 0 THEN NaNVec
        ELSE [nan |-> FALSE,
              v |-> [c \in 1..Channels |-> (ChanSum(im, c, members) * Scale) \div cnt]]

\* _get_centroids
GetCentroids(im, lab, k) == [j \in 1..k |-> ClusterMean(im, lab, j - 1)]

\* labels.astype(np.uint8).  A label in range is kept.  Converting a float
\* outside 0..255 to an unsigned 8-bit integer is undefined in C: builds
\* that truncate through a wider integer keep the low 8 bits, builds that
\* saturate yield 255.  `sat` selects the build.
CastUint8(x, sat) == IF x < Uint8Mod THEN x ELSE IF sat THEN Uint8Mod - 1 ELSE x % Uint8Mod

\* ------------------------------------------------------------------------
\* State
\* ------------------------------------------------------------------------

VARIABLES
    K,                   \* self.K
    img,                 \* the flattened image, one tuple per pixel
    iterations,          \* the iterations argument of cluster
    pc,                  \* position in KMeans.cluster
    it,                  \* rounds of the for loop completed
    centroids,           \* the local centroids
    labels,              \* the local labels; <<>> while unbound
    image_reconstructed, \* centroids[labels.astype(np.uint8), :]
    error,               \* the exception raised, "none" if none
    sampled,             \* history: np.random.choice returned a sample
    init_centroids,      \* history: the result of _init_means
    trace,               \* history: the helper calls of the loop, in order
    word_list,           \* dataloader: the words load_books read
    doc,                 \* dataloader: the word list handed to doc2num
    vocab_size,          \* dataloader: build_dict's vocab_size
    window_size,         \* dataloader: build_training_set's window_size
    dictionary,          \* dataloader: word -> index
    word_array,          \* dataloader: result of doc2num
    xy,                  \* dataloader: result of build_training_set
    tpc                  \* dataloader: position in the pipeline

kmVars == << K, img, iterations, pc, it, centroids, labels, image_reconstructed,
             error, sampled, init_centroids, trace >>

textVars == << word_list, doc, vocab_size, window_size, dictionary, word_array, xy, tpc >>

vars == << kmVars, textVars >>

\* The dataloader state while the clustering script runs, and conversely.
TextIdle ==
    /\ word_list = <<>> /\ doc = <<>> /\ vocab_size = 0 /\ window_size = 0
    /\ dictionary = <<>> /\ word_array = <<>> /\ xy = <<>> /\ tpc = "off"

KMeansIdle ==
    /\ K = 0 /\ img = <<>> /\ iterations = 0 /\ pc = "off" /\ it = 0
    /\ centroids = <<>> /\ labels = <<>> /\ image_reconstructed = <<>>
    /\ error = "none" /\ sampled = FALSE /\ init_centroids = <<>> /\ trace = <<>>

\* ------------------------------------------------------------------------
\* KMeans.cluster
\* ------------------------------------------------------------------------

\* KMeans(K): the state after construction.
Init ==
    /\ K \in KRange
    /\ img = <<>> /\ iterations = 0 /\ pc = "load" /\ it = 0
    /\ centroids = <<>> /\ labels = <<>> /\ image_reconstructed = <<>>
    /\ error = "none" /\ sampled = FALSE /\ init_centroids = <<>> /\ trace = <<>>
    /\ TextIdle

\* cluster(img_filename, iterations): _load_image.  The wide image is
\* clustered with K equal to its pixel count only, for one round, and is
\* the only image that K is used with.
LoadImage ==
    /\ pc = "load"
    /\ \E im \in SmallImages \cup {WideImage}, n \in 0..MaxIters :
          /\ (Len(im) > MaxPixels) <=> (K = WidePixels)
          /\ (Len(im) > MaxPixels) => n = 1
          /\ img' = im
          /\ iterations' = n
    /\ pc' = "init"
    /\ UNCHANGED << K, it, centroids, labels, image_reconstructed, error, sampled,
                    init_centroids, trace, textVars >>

\* centroids = self._init_means(img).  np.random.choice raises ValueError
\* for a negative size and for a sample larger than the population.
ClusterInitMeans ==
    /\ pc = "init"
    /\ IF K < 0 \/ K > Len(img)
       THEN /\ pc' = "error"
            /\ error' = "ValueError"
            /\ UNCHANGED << centroids, sampled, init_centroids >>
       ELSE /\ \E sample \in Samples(Len(img), K) :
                 /\ centroids' = InitMeans(img, sample)
                 /\ init_centroids' = InitMeans(img, sample)
            /\ sampled' = TRUE
            /\ pc' = "assign"
            /\ UNCHANGED error
    /\ UNCHANGED << K, img, iterations, it, labels, image_reconstructed, trace, textVars >>

\* Variant of LoopDone: the loop also ends once a round left the centroids
\* unchanged.
LoopDoneOrStable ==
    \/ it >= iterations
    \/ /\ it >= 1
       /\ centroids = trace[Len(trace) - 1].in

\* The for loop is exhausted after `iterations` rounds.
LoopDone == it >= iterations

\* E-step of one round: labels = self._get_nearest_means(img, centroids).
\* With no means, np.argmin of an empty sequence raises ValueError at the
\* first pixel.
ClusterAssign ==
    /\ pc = "assign"
    /\ ~LoopDone
    /\ IF K = 0
       THEN /\ pc' = "error"
            /\ error' = "ValueError"
            /\ UNCHANGED << labels, trace >>
       ELSE /\ labels' = GetNearestMeans(img, centroids)
            /\ trace' = Append(trace, [op |-> "assign", in |-> centroids,
                                        out |-> GetNearestMeans(img, centroids)])
            /\ pc' = "recompute"
            /\ UNCHANGED error
    /\ UNCHANGED << K, img, iterations, it, centroids, image_reconstructed, sampled,
                    init_centroids, textVars >>

\* M-step of one round: centroids = self._get_centroids(img, labels).
ClusterRecompute ==
    /\ pc = "recompute"
    /\ centroids' = GetCentroids(img, labels, K)
    /\ trace' = Append(trace, [op |-> "recompute", in |-> labels,
                                out |-> GetCentroids(img, labels, K)])
    /\ it' = it + 1
    /\ pc' = "assign"
    /\ UNCHANGED << K, img, iterations, labels, image_reconstructed, error, sampled,
                    init_centroids, textVars >>

\* Variant of ReconLabels: labels recomputed against the final centroids.
ReconLabelsRecomputed == GetNearestMeans(img, centroids)

\* The labels the reconstruction indexes the centroids with, before the cast.
ReconLabels == labels

\* After the loop: image_reconstructed = centroids[labels.astype(np.uint8), :].
\* When the loop body never ran, labels is unbound and the read raises
\* UnboundLocalError.  The conversion to a PIL image, the file written and
\* the printed rate (lines 105-120) change none of the variables.
ClusterReconstruct ==
    /\ pc = "assign"
    /\ LoopDone
    /\ IF labels = <<>>
       THEN /\ pc' = "error"
            /\ error' = "UnboundLocalError"
            /\ UNCHANGED image_reconstructed
       ELSE /\ \E sat \in BOOLEAN :
                 image_reconstructed' =
                     [i \in 1..Len(img) |-> centroids[CastUint8(ReconLabels[i], sat) + 1]]
            /\ pc' = "done"
            /\ UNCHANGED error
    /\ UNCHANGED << K, img, iterations, it, centroids, labels, sampled, init_centroids,
                    trace, textVars >>

Next == LoadImage \/ ClusterInitMeans \/ ClusterAssign \/ ClusterRecompute \/ ClusterReconstruct

Spec == Init /\ [][Next]_vars

\* ------------------------------------------------------------------------
\* Definitions used to state the properties of KMeans.cluster
\* ------------------------------------------------------------------------

\* cluster has been entered, so img and iterations hold its arguments.
Entered == pc # "load"

\* The arguments the specification calls valid.
ValidArgs == K >= 1 /\ K <= Len(img) /\ iterations >= 1

AllDefined(means) == \A j \in 1..Len(means) : ~means[j].nan

\* Sum over pixels lo..hi of the squared distance to the nearest mean, the
\* nearest mean being the one _get_nearest_means chooses.
RECURSIVE SseIn(_, _, _, _)
SseIn(im, means, lo, hi) ==
    IF lo = hi THEN SqDist(im[lo], means[ArgMin(im[lo], means) + 1])
    ELSE LET mid == (lo + hi) \div 2
         IN  SseIn(im, means, lo, mid) + SseIn(im, means, mid + 1, hi)

Sse(im, means) == SseIn(im, means, 1, Len(im))

\* a <= b for sums of distances either of which is NaN when some mean is
\* NaN: a comparison with NaN is false.
SseLeq(im, a, b) == AllDefined(a) /\ AllDefined(b) /\ Sse(im, a) <= Sse(im, b)

\* The centroids the Assign at trace position j should have been given.
CentroidsBefore(j) == IF j = 1 THEN init_centroids ELSE trace[j - 1].out

\* C1: with valid arguments cluster never fails, its helper calls alternate
\* Assign, Recompute, Assign, ...; the first Assign is given the centroids of
\* _init_means, every later Assign exactly the output of the Recompute before
\* it, every Recompute the labels of the Assign before it; and it finishes
\* after exactly `iterations` rounds, also when the centroids stopped moving.
C1_ExactlyNRounds ==
    (Entered /\ ValidArgs) =>
        /\ pc # "error"
        /\ Len(trace) <= 2 * iterations
        /\ \A j \in 1..Len(trace) :
              /\ trace[j].op = (IF j % 2 = 1 THEN "assign" ELSE "recompute")
              /\ trace[j].in = CentroidsBefore(j)
        /\ (pc = "done" => Len(trace) = 2 * iterations /\ it = iterations)

\* A finished run of at least two rounds whose centroids were already
\* stable after round 1: the second round ran all the same.
C1_Witness ==
    /\ pc = "done" /\ ValidArgs /\ iterations >= 2
    /\ Len(trace) = 2 * iterations
    /\ trace[2].out = init_centroids
    /\ trace[3].op = "assign" /\ trace[3].in = trace[2].out

\* C2: when cluster finishes, labels is the output of the Assign of round N,
\* which was given the centroids from before the Recompute of round N;
\* centroids is the output of the Recompute of round N; and the image is
\* reconstructed from those labels, not from labels recomputed against the
\* final centroids.
C2_LastAssignReturned ==
    (pc = "done" /\ ValidArgs) =>
        LET n == iterations IN
        /\ labels = trace[2 * n - 1].out
        /\ trace[2 * n - 1].op = "assign"
        /\ trace[2 * n - 1].in = CentroidsBefore(2 * n - 1)
        /\ centroids = trace[2 * n].out
        /\ trace[2 * n].op = "recompute"
        /\ \E sat \in BOOLEAN :
              image_reconstructed =
                  [i \in 1..Len(img) |-> centroids[CastUint8(trace[2 * n - 1].out[i], sat) + 1]]

\* A finished run whose returned labels differ from the labels an Assign
\* against the returned centroids would give, and whose image differs too.
C2_Witness ==
    /\ pc = "done" /\ ValidArgs /\ AllDefined(centroids)
    /\ labels # GetNearestMeans(img, centroids)
    /\ image_reconstructed #
           [i \in 1..Len(img) |-> centroids[GetNearestMeans(img, centroids)[i] + 1]]

\* C3: right after an Assign over defined centroids, labels has one entry
\* per pixel, each the index of a centroid at minimal distance from the
\* pixel, and no centroid of lower index is equally near.
C3_NearestLowestIndex ==
    (pc = "recompute" /\ K >= 1 /\ AllDefined(centroids)) =>
        /\ Len(labels) = Len(img)
        /\ \A i \in 1..Len(img) :
              /\ labels[i] \in 0..(K - 1)
              /\ \A k \in 1..K :
                    /\ SqDist(img[i], centroids[labels[i] + 1]) <= SqDist(img[i], centroids[k])
                    /\ (k < labels[i] + 1 =>
                           SqDist(img[i], centroids[labels[i] + 1]) < SqDist(img[i], centroids[k]))

\* An Assign in which some pixel is equally near to two centroids, both
\* nearest, so that the tie rule decides.
C3_Witness ==
    /\ pc = "recompute" /\ K >= 2 /\ AllDefined(centroids)
    /\ \E i \in 1..Len(img) : \E k \in 1..K :
          /\ k > labels[i] + 1
          /\ SqDist(img[i], centroids[k]) = SqDist(img[i], centroids[labels[i] + 1])

\* C4: with K <= 0, K greater than the number of pixels, or iterations < 1,
\* cluster fails before it samples initial centroids, runs any Assign or
\* Recompute, or reconstructs an image.
C4_InvalidArgsFailImmediately ==
    (Entered /\ ~ValidArgs) =>
        /\ ~sampled
        /\ trace = <<>>
        /\ image_reconstructed = <<>>
        /\ pc \in {"init", "error"}

\* The run the "K equal to number of points" scenario is about.
OneRoundKEqualsN == pc = "done" /\ K = Len(img) /\ K >= 1 /\ iterations = 1

DistinctPoints == \A a, b \in 1..Len(img) : a # b => img[a] # img[b]

\* Every point is bound to a defined centroid whose value is the point.
BoundToOwnValue == \A i \in 1..Len(img) : centroids[labels[i] + 1] = PointAsMean(img[i])

\* Every centroid is still the point it was sampled from.
CentroidsAreSamples == \A k \in 1..K : centroids[k] = init_centroids[k]

NoEmptyCluster == \A k \in 1..K : \E i \in 1..Len(img) : labels[i] = k - 1

\* C5 as stated: with K = n and one iteration, for any points (equal ones
\* included), every centroid equals its sampled point, every point is bound
\* to a centroid of its own value, and no cluster is empty.
C5_KEqualsN_AnyPoints ==
    OneRoundKEqualsN => (CentroidsAreSamples /\ BoundToOwnValue /\ NoEmptyCluster)

\* C5 amended: the full statement for pairwise distinct points; with equal
\* points every point is still bound to a centroid of its own value, the
\* lowest-indexed centroid sampled from its group, and every other centroid
\* of that group has an empty cluster and is NaN.
C5_KEqualsN_DistinctPoints ==
    OneRoundKEqualsN =>
        /\ BoundToOwnValue
        /\ DistinctPoints => (CentroidsAreSamples /\ NoEmptyCluster)
        /\ \A i \in 1..Len(img) : \A k \in 1..K :
              init_centroids[k] = PointAsMean(img[i]) =>
                  /\ labels[i] + 1 <= k
                  /\ (labels[i] + 1 < k => centroids[k].nan)

\* Both cases of the amended C5 are reached: distinct points ...
C5_Witness ==
    /\ OneRoundKEqualsN /\ K >= 2 /\ DistinctPoints
    /\ CentroidsAreSamples /\ NoEmptyCluster

\* ... and equal points, where a cluster is empty.
C5_WitnessEqualPoints == OneRoundKEqualsN /\ ~DistinctPoints /\ ~NoEmptyCluster

\* Position (1-based) of the first NaN centroid.
FirstNaN(means) == CHOOSE k \in 1..Len(means) : means[k].nan /\ \A j \in 1..(k - 1) : ~means[j].nan

\* The mean of all pixels.
GlobalMean == ClusterMean(img, [i \in 1..Len(img) |-> 0], 0)

AssignsInRange ==
    \A j \in 1..Len(trace) :
        trace[j].op = "assign" => \A i \in 1..Len(img) : trace[j].out[i] \in 0..(K - 1)

\* C6 as stated: an empty cluster raises no error, its centroid becomes
\* NaN, the run completes all rounds, labels stay in [0, K), and a centroid
\* that is NaN after some round is NaN after every later round.
C6_NaNStaysNaN ==
    (Entered /\ ValidArgs) =>
        /\ pc # "error"
        /\ (pc = "done" => Len(trace) = 2 * iterations)
        /\ AssignsInRange
        /\ \A j \in 1..Len(trace) :
              trace[j].op = "recompute" =>
                  \A k \in 1..K :
                      /\ ((\A i \in 1..Len(img) : trace[j].in[i] # k - 1) => trace[j].out[k].nan)
                      /\ \A m \in (j + 1)..Len(trace) :
                            (trace[m].op = "recompute" /\ trace[j].out[k].nan)
                                => trace[m].out[k].nan

\* C6 amended: as above, except for what becomes of a NaN centroid.  In the
\* round after one whose Recompute left NaN centroids, Assign binds every
\* pixel to the lowest-indexed NaN centroid; Recompute then makes that
\* centroid the mean of all pixels and every other centroid NaN.  So some
\* centroid is NaN after every later round, but not the same one.
C6_NaNMovesOn ==
    (Entered /\ ValidArgs) =>
        /\ pc # "error"
        /\ (pc = "done" => Len(trace) = 2 * iterations)
        /\ AssignsInRange
        /\ \A j \in 1..Len(trace) :
              trace[j].op = "recompute" =>
                  /\ \A k \in 1..K :
                        (\A i \in 1..Len(img) : trace[j].in[i] # k - 1) <=> trace[j].out[k].nan
                  /\ (~AllDefined(trace[j].out) /\ j + 1 <= Len(trace)) =>
                        \A i \in 1..Len(img) : trace[j + 1].out[i] = FirstNaN(trace[j].out) - 1
                  /\ (~AllDefined(trace[j].out) /\ j + 2 <= Len(trace)) =>
                        /\ K >= 2
                        /\ \A k \in 1..K :
                              trace[j + 2].out[k] =
                                  IF k = FirstNaN(trace[j].out) THEN GlobalMean ELSE NaNVec

\* A finished run in which a centroid that was NaN after one round is
\* defined after the next, while another one is NaN.
C6_Witness ==
    /\ pc = "done" /\ ValidArgs /\ Len(trace) >= 4
    /\ \E k \in 1..K :
          /\ trace[Len(trace) - 2].out[k].nan
          /\ ~trace[Len(trace)].out[k].nan
    /\ ~AllDefined(centroids)

\* C7: in a finished run every pixel of the reconstructed image has the
\* colour of the centroid its label names, whatever K is.
C7_PixelIsAssignedCentroid ==
    pc = "done" =>
        /\ Len(image_reconstructed) = Len(img)
        /\ \A i \in 1..Len(img) : image_reconstructed[i] = centroids[labels[i] + 1]

\* The centroids at the start of the round that just ended.
PrevCentroids == trace[Len(trace) - 1].in

RoundEnded == pc = "assign" /\ it >= 1 /\ ValidArgs

\* C8 as stated: after every round the sum of squared distances to the
\* nearest centroid is at most the sum for the initial centroids, and it
\* does not increase in a round that leaves no cluster empty.
C8_NeverWorseThanInitial ==
    RoundEnded =>
        /\ SseLeq(img, centroids, init_centroids)
        /\ (AllDefined(centroids) => SseLeq(img, centroids, PrevCentroids))

\* C8 amended: the same, for the rounds that leave no cluster empty (which
\* are the rounds whose centroids are all defined).
C8_NoEmptyClusterNeverWorse ==
    (RoundEnded /\ AllDefined(centroids)) =>
        /\ AllDefined(PrevCentroids)
        /\ SseLeq(img, centroids, PrevCentroids)
        /\ SseLeq(img, centroids, init_centroids)

\* A second round that strictly lowers the sum.
C8_Witness ==
    /\ RoundEnded /\ it >= 2 /\ AllDefined(centroids)
    /\ Sse(img, centroids) < Sse(img, PrevCentroids)
    /\ Sse(img, PrevCentroids) < Sse(img, init_centroids)

\* ------------------------------------------------------------------------
\* word_embeddings/dataloader.py
\* ------------------------------------------------------------------------

SeqsUpTo(S, n) == UNION { [1..m -> S] : m \in 0..n }

\* vocab_size arguments: none, some, all and more than all of the words,
\* and a negative one.
VocabSizes == -1 .. (Cardinality(Words) + 1)

\* The distinct words of wl in order of first occurrence: the key order of
\* the Counter that load_books fills with update(words).
RECURSIVE FirstOccurrences(_)
FirstOccurrences(wl) ==
    IF wl = <<>> THEN <<>>
    ELSE LET front == SubSeq(wl, 1, Len(wl) - 1)
             rest == FirstOccurrences(front)
             w == wl[Len(wl)]
         IN  IF \E j \in 1..Len(front) : front[j] = w THEN rest ELSE Append(rest, w)

\* word_counter.items(): <<word, count>> in key order.
WordCounter(wl) ==
    LET keys == FirstOccurrences(wl)
    IN  [j \in 1..Len(keys) |->
            << keys[j], Cardinality({ i \in 1..Len(wl) : wl[i] = keys[j] }) >>]

\* Insert item behind every item whose count is at least as large.
RECURSIVE InsertByCount(_, _)
InsertByCount(sorted, item) ==
    IF sorted = <<>> THEN << item >>
    ELSE IF Head(sorted)[2] >= item[2]
         THEN << Head(sorted) >> \o InsertByCount(Tail(sorted), item)
         ELSE << item >> \o sorted

\* A stable sort by descending count: sorted(items, key=count, reverse=True)
\* and list.sort(key=lambda t: -t[1]).
RECURSIVE SortByCountDesc(_)
SortByCountDesc(items) ==
    IF items = <<>> THEN <<>>
    ELSE InsertByCount(SortByCountDesc(SubSeq(items, 1, Len(items) - 1)), items[Len(items)])

\* Counter.most_common(n) for an integer n: heapq.nlargest, which yields
\* nothing for n <= 0 and else the first n items of the stable sort.
MostCommon(items, n) ==
    IF n <= 0 THEN <<>>
    ELSE LET all == SortByCountDesc(items)
         IN  SubSeq(all, 1, IF n < Len(all) THEN n ELSE Len(all))

\* build_dict: word -> position (0-based) among the sorted top words.
BuildDict(counter, n) ==
    LET top_words == SortByCountDesc(MostCommon(counter, n))
    IN  [w \in { top_words[j][1] : j \in 1..Len(top_words) } |->
            (CHOOSE j \in 1..Len(top_words) : top_words[j][1] = w) - 1]

\* Variant of UnknownVal: the value the ":return:" text names.
UnknownValDocstring(d) == Cardinality(DOMAIN d) - 1

\* unknown_val = len(dictionary)
UnknownVal(d) == Cardinality(DOMAIN d)

\* doc2num: dictionary.get(word, unknown_val) for each word, in order.  The
\* values fit np.int32, so the conversion to the array changes none.
Doc2Num(wl, d) ==
    [j \in 1..Len(wl) |-> IF wl[j] \in DOMAIN d THEN d[wl[j]] ELSE UnknownVal(d)]

\* Variant of Shift: the offsets reach window_size words to each side.
ShiftFromWindow == << 0 - window_size, -1, 1, window_size >>

\* shift = np.array([-2, -1, 1, 2])
Shift == << -2, -1, 1, 2 >>

\* build_training_set for num_words >= 4: row idx-2 for idx in
\* range(2, num_words-2), 0-based in the code; row r here is idx = r + 1
\* and word_array[idx] is wa[idx + 1].
BuildTrainingSet(wa) ==
    [x |-> [r \in 1..(Len(wa) - 4) |-> [c \in 1..4 |-> wa[r + 2 + Shift[c]]]],
     y |-> [r \in 1..(Len(wa) - 4) |-> << wa[r + 2] >>]]

\* A book has been read: word_list and vocab_size are the arguments.
InitText ==
    /\ word_list \in SeqsUpTo(Words, MaxBook)
    /\ vocab_size \in VocabSizes
    /\ doc = <<>> /\ window_size = 0
    /\ dictionary = <<>> /\ word_array = <<>> /\ xy = <<>>
    /\ tpc = "build_dict"
    /\ KMeansIdle

\* dictionary = build_dict(word_counter, vocab_size)
TextBuildDict ==
    /\ tpc = "build_dict"
    /\ dictionary' = BuildDict(WordCounter(word_list), vocab_size)
    /\ tpc' = "doc2num"
    /\ UNCHANGED << word_list, doc, vocab_size, window_size, word_array, xy, kmVars >>

\* word_array = doc2num(word_list, dictionary), for any word list.
TextDoc2Num ==
    /\ tpc = "doc2num"
    /\ \E wl \in SeqsUpTo(Words, MaxDoc) :
          /\ doc' = wl
          /\ word_array' = Doc2Num(wl, dictionary)
    /\ tpc' = "train"
    /\ UNCHANGED << word_list, vocab_size, window_size, dictionary, xy, kmVars >>

\* x, y = build_training_set(word_array, window_size).  np.zeros raises
\* ValueError for the negative row count of fewer than four words.
TextBuildTrainingSet ==
    /\ tpc = "train"
    /\ IF Len(word_array) < 4
       THEN /\ tpc' = "error"
            /\ UNCHANGED << window_size, xy >>
       ELSE /\ window_size' \in 0..MaxWindow
            /\ xy' = BuildTrainingSet(word_array)
            /\ tpc' = "trained"
    /\ UNCHANGED << word_list, doc, vocab_size, dictionary, word_array, kmVars >>

NextText == TextBuildDict \/ TextDoc2Num \/ TextBuildTrainingSet

SpecText == InitText /\ [][NextText]_vars

=============================================================================
